---- MODULE Spec2Model ----
(***************************************************************************)
(* Model of src/js/puck.js: one Connection created by connect(callback),   *)
(* its negotiation promise chain, connection.close, connection.write and   *)
(* the chunked write queue, together with the Web Bluetooth transport the  *)
(* code is written against.                                                *)
(*                                                                         *)
(* The transport is outside the repository.  It is modelled as the most    *)
(* general environment of the calls the code makes: every outstanding      *)
(* promise may resolve or reject at any time, the link may drop at any     *)
(* time once it is up, btServer.disconnect() either dispatches             *)
(* 'gattserverdisconnected' synchronously inside the call (the Web         *)
(* Bluetooth "clean up the disconnected device" steps) or dispatches       *)
(* nothing, and a registered notification listener may be called at any    *)
(* time.  The code contains no guard that would depend on a narrower       *)
(* transport.                                                              *)
(*                                                                         *)
(* The Session Facade (the module-level write/eval of lines 178-215) owns  *)
(* a module variable that refers to one of the Connections it created.     *)
(* Those Connections are kept in conns, each a record with the fields of   *)
(* the single Connection above, and the same handler operators are applied *)
(* to them.  The facade never hands its Connection to its caller, so in    *)
(* FacadeSpec a Connection is closed only by the code itself.              *)
(*                                                                         *)
(* Each action is one JavaScript task: a promise reaction, an event        *)
(* listener or a call made by the owner of the connection handle.  Handler *)
(* bodies are sequential code, so they are written as operators from a     *)
(* state record to a state record and composed in program order.           *)
(***************************************************************************)
EXTENDS Integers, Sequences, FiniteSets, TLC

\* ------------------------------------------------------------------ bounds
MaxWrites == 2      \* connection.write calls that are accepted (txItem objects)
MaxNotify == 1      \* 'characteristicvaluechanged' notifications raised
MaxLen == 49        \* longest payload offered when the chunk split is examined
MaxFWrites == 2     \* calls of the facade's write
MaxData == 2        \* notifications raised while the facade is exercised
MaxPollData == 10   \* notifications raised while the quiescence poll is examined

\* ------------------------------------------------------- program constants
CHUNKSIZE == 16

\* payload lengths offered to connection.write: empty, and one chunk with a
\* remainder
PayloadLens == {0, CHUNKSIZE + 1}
\* payload length written by a completion callback that calls
\* connection.write: exactly one chunk
NestedLen == CHUNKSIZE
\* what the caller passed as completion callback: nothing, a function that
\* only returns, one that calls connection.close() (the usage shown in the
\* file header), one that calls connection.write again
CallbackKinds == {"none", "plain", "close", "write"}
\* what btServer.disconnect() does with 'gattserverdisconnected' on a link
\* that is up: dispatch it before returning, or not at all
DispatchModes == {"sync", "none"}
\* payload length of a facade write: one full chunk
FacadeLen == CHUNKSIZE
\* line 185
maxTime == 10

VARIABLES
  isOpen,            \* connection.isOpen
  btServer,          \* btServer is defined
  btService,         \* btService is defined
  txCharacteristic,  \* txCharacteristic is defined
  rxCharacteristic,  \* rxCharacteristic is defined
  txDataQueue,       \* sequence of references (indices into txItems)
  txInProgress,
  txItems,           \* the {data, callback} objects created by connection.write
  pc,                \* the pending step of the negotiation promise chain
  linkUp,            \* transport: device.gatt.connected
  discListener,      \* 'gattserverdisconnected' listener registered
  notifyListener,    \* 'characteristicvaluechanged' listener registered
  discEvt,           \* a 'gattserverdisconnected' task is queued (link lost)
  pending,           \* transport: writeValue promises not yet settled
  sent,              \* history: chunks handed to txCharacteristic.writeValue
  acked,             \* history: per txItem, chunks whose writeValue resolved
  events,            \* history: connection.emit calls, and when Closed was reached
  connected,         \* history: arguments of the connect() callback
  closed,            \* history: connection.close() has been called
  marks,             \* history: which cases have occurred
  conns,             \* facade: the Connection objects created by connect()
  connection,        \* facade: the module variable of line 180 (0: undefined)
  timers,            \* facade: pending setTimeout closures of onWritten
  fw,                \* history: the facade write calls and their callbacks
  dataConn           \* history: per notification raised, its Connection

codeVars == <<isOpen, btServer, btService, txCharacteristic, rxCharacteristic,
              txDataQueue, txInProgress, txItems, pc>>
envVars  == <<linkUp, discListener, notifyListener, discEvt, pending>>
histVars == <<sent, acked, events, connected, closed, marks>>
fvars == <<conns, connection, timers, fw, dataConn>>
vars == <<codeVars, envVars, histVars, fvars>>

\* --------------------------------------------------------------- JS values
UNDEFINED == [defined |-> FALSE, str |-> <<>>]
Str(x)    == [defined |-> TRUE, str |-> x]
\* JavaScript truthiness of a string-or-undefined value: !v
Falsy(v)  == (~v.defined) \/ Len(v.str) = 0
\* String.prototype.substr(start, length) and substr(start), 0-based start
substr2(x, start, n) ==
  SubSeq(x, start + 1, IF start + n < Len(x) THEN start + n ELSE Len(x))
substr1_skip(x, start) == SubSeq(x, start + 2, Len(x))
substr1(x, start) == SubSeq(x, start + 1, Len(x))

\* the payload of the id-th accepted write: bytes tagged by request
Payload(id, len) == [k \in 1..len |-> id * 100 + k]

\* ------------------------------------------------------------ state record
St == [isOpen |-> isOpen, btServer |-> btServer, btService |-> btService,
       txCharacteristic |-> txCharacteristic,
       rxCharacteristic |-> rxCharacteristic,
       txDataQueue |-> txDataQueue, txInProgress |-> txInProgress,
       txItems |-> txItems, pc |-> pc,
       linkUp |-> linkUp, discListener |-> discListener,
       notifyListener |-> notifyListener, discEvt |-> discEvt,
       pending |-> pending,
       sent |-> sent, acked |-> acked, events |-> events,
       connected |-> connected, closed |-> closed, marks |-> marks,
       threw |-> FALSE]

Commit(s) ==
  /\ isOpen' = s.isOpen
  /\ btServer' = s.btServer
  /\ btService' = s.btService
  /\ txCharacteristic' = s.txCharacteristic
  /\ rxCharacteristic' = s.rxCharacteristic
  /\ txDataQueue' = s.txDataQueue
  /\ txInProgress' = s.txInProgress
  /\ txItems' = s.txItems
  /\ pc' = s.pc
  /\ linkUp' = s.linkUp
  /\ discListener' = s.discListener
  /\ notifyListener' = s.notifyListener
  /\ discEvt' = s.discEvt
  /\ pending' = s.pending
  /\ sent' = s.sent
  /\ acked' = s.acked
  /\ events' = s.events
  /\ connected' = s.connected
  /\ closed' = s.closed
  /\ marks' = s.marks
  /\ UNCHANGED fvars

Mark(s, m) == [s EXCEPT !.marks = @ \cup {m}]

\* connection.emit(evt): the subscriber only records the event
emit(s, evt) == [s EXCEPT !.events = Append(@, evt)]
\* the connect() callback: the caller only records the argument
callback(s, arg) == [s EXCEPT !.connected = Append(@, arg)]

\* ------------------------------------------------------- connection.close
\* lines 90-96: what close() does after btServer.disconnect() has returned
closeTail(s) ==
  LET c == [s EXCEPT !.btServer = FALSE, !.txCharacteristic = FALSE,
                     !.rxCharacteristic = FALSE]
  IN  IF c.isOpen THEN emit([c EXCEPT !.isOpen = FALSE], "close")
      ELSE callback(c, "null")

\* btServer.disconnect(): nothing when the link is already down; otherwise the
\* link goes down and, in mode "sync", 'gattserverdisconnected' is dispatched
\* to the listener of lines 139-142, which calls connection.close() (btServer
\* is still defined there, its nested disconnect() finds the link down)
disconnect(s, mode) ==
  IF ~s.linkUp THEN s
  ELSE LET d == [s EXCEPT !.linkUp = FALSE]
       IN  IF d.discListener /\ mode = "sync" THEN closeTail(d) ELSE d

\* the Connection reaches Closed when close() is called on it
reachClosed(s) ==
  IF s.closed THEN s
  ELSE [s EXCEPT !.closed = TRUE, !.events = Append(@, "closed")]

close(s, mode) ==
  LET m == reachClosed(s)
  IN  IF m.btServer THEN closeTail(disconnect(m, mode)) ELSE m

\* ------------------------------------------------------- connection.write
\* line 102: txDataQueue.push
PushFront(q, id) == <<id>> \o q
push(q, id) == Append(q, id)

\* line 103: the test that decides whether write() starts the drain itself
Always(s) == TRUE
drainIdle(s) == ~s.txInProgress

\* lines 105-118: writeChunk up to and including the writeValue call.  With
\* txCharacteristic undefined the call throws a TypeError after the txItem
\* and txInProgress have been updated; with txItem.data undefined line 109
\* throws before anything is updated.
writeChunk(s) ==
  LET id     == Head(s.txDataQueue)
      data   == s.txItems[id].data.str
      whole  == Len(data) <= CHUNKSIZE
      chunk  == IF whole THEN data ELSE substr2(data, 0, CHUNKSIZE)
      rest   == IF whole THEN UNDEFINED ELSE Str(substr1(data, CHUNKSIZE))
      s1     == [s EXCEPT !.txItems[id].data = rest, !.txInProgress = TRUE]
  IN  IF ~s.txItems[id].data.defined THEN [s EXCEPT !.threw = TRUE]
      ELSE IF ~s1.txCharacteristic THEN [s1 EXCEPT !.threw = TRUE]
      ELSE [s1 EXCEPT
              !.sent = Append(@, [item |-> id, bytes |-> chunk]),
              !.pending = @ \cup {[item |-> id, bytes |-> chunk,
                                   n |-> Len(s.sent) + 1]}]

\* lines 100-103
write(s, len, cb) ==
  IF ~s.txCharacteristic THEN s
  ELSE LET id == Len(s.txItems) + 1
           s1 == [s EXCEPT
                    !.txItems = Append(@, [data |-> Str(Payload(id, len)),
                                           callback |-> cb,
                                           payload |-> Payload(id, len),
                                           whenClosed |-> s.closed,
                                           dropped |-> FALSE,
                                           calls |-> 0]),
                    !.acked = Append(@, <<>>),
                    !.txDataQueue = push(@, id)]
       IN  IF drainIdle(s1) THEN writeChunk(s1) ELSE s1

\* line 122: txItem.callback().  An omitted callback is undefined and the
\* call throws a TypeError.
callCompletion(s, id, mode) ==
  LET kind == s.txItems[id].callback
      c    == [s EXCEPT !.txItems[id].calls = @ + 1]
  IN  IF kind = "none" THEN [s EXCEPT !.threw = TRUE]
      \* the facade's onWritten (lines 182-196): with a callback it only
      \* arms a timer; without one it executes connection.received = "" on
      \* the module variable, a TypeError when that is undefined
      ELSE IF kind = "onWritten" THEN c
      ELSE IF kind = "onWrittenBare"
           THEN IF s.module = 0 THEN [s EXCEPT !.threw = TRUE] ELSE c
      ELSE IF kind = "close" THEN close(c, mode)
      ELSE IF kind = "write" /\ Len(c.txItems) < MaxWrites
           THEN write(c, NestedLen, "plain")
      ELSE c

\* lines 128-130: the catch handler of the writeValue chain; it also receives
\* whatever the then handler throws
onSendError(s, mode) ==
  close([s EXCEPT !.txDataQueue = <<>>, !.threw = FALSE], mode)

\* line 121: Array.prototype.shift
shift(q) == IF q = <<>> THEN q ELSE Tail(q)

\* lines 119-126: the then handler of writeValue for the txItem it captured
onSent(s, id, mode) ==
  LET s1 == IF Falsy(s.txItems[id].data)
            THEN callCompletion([s EXCEPT !.txDataQueue = shift(@)], id, mode)
            ELSE s
      s2 == [s1 EXCEPT !.txInProgress = FALSE]
      s3 == IF s2.txDataQueue # <<>> THEN writeChunk(s2) ELSE s2
  IN  IF s1.threw THEN onSendError(s1, mode)
      ELSE IF s3.threw THEN onSendError(s3, mode)
      ELSE s3

\* ------------------------------------------------------------------ actions
Init ==
  /\ isOpen = FALSE
  /\ btServer = FALSE
  /\ btService = FALSE
  /\ txCharacteristic = FALSE
  /\ rxCharacteristic = FALSE
  /\ txDataQueue = <<>>
  /\ txInProgress = FALSE
  /\ txItems = <<>>
  /\ pc = "requestDevice"
  /\ linkUp = FALSE
  /\ discListener = FALSE
  /\ notifyListener = FALSE
  /\ discEvt = FALSE
  /\ pending = {}
  /\ sent = <<>>
  /\ acked = <<>>
  /\ events = <<>>
  /\ connected = <<>>
  /\ closed = FALSE
  /\ marks = {}
  /\ conns = <<>>
  /\ connection = 0
  /\ timers = {}
  /\ fw = <<>>
  /\ dataConn = <<>>

Negotiating == pc \notin {"done", "failed"}

\* lines 135-143: requestDevice resolved
DeviceChosen ==
  /\ pc = "requestDevice"
  /\ Commit([St EXCEPT !.discListener = TRUE, !.pc = "gattConnect"])

\* lines 144-147: device.gatt.connect() resolved
GattConnected ==
  /\ pc = "gattConnect"
  /\ Commit([St EXCEPT !.linkUp = TRUE, !.btServer = TRUE,
                       !.pc = "getPrimaryService"])

\* lines 148-151
GotService ==
  /\ pc = "getPrimaryService"
  /\ Commit([St EXCEPT !.btService = TRUE, !.pc = "getRX"])

\* lines 152-159
GotRX ==
  /\ pc = "getRX"
  /\ Commit([St EXCEPT !.rxCharacteristic = TRUE, !.notifyListener = TRUE,
                       !.pc = "startNotifications"])

\* lines 160-161
NotificationsStarted ==
  /\ pc = "startNotifications"
  /\ Commit([St EXCEPT !.pc = "getTX"])

\* lines 162-170: the handler that stores the TX characteristic returns no
\* promise, so the handler that opens the connection is the next microtask
GotTX ==
  /\ pc = "getTX"
  /\ Commit(emit(callback([St EXCEPT !.txCharacteristic = TRUE,
                                     !.txDataQueue = <<>>,
                                     !.txInProgress = FALSE,
                                     !.isOpen = TRUE,
                                     !.pc = "done"], "conn"), "open"))

\* lines 171-174: the pending step of the chain rejected
NegotiationFailed ==
  /\ Negotiating
  /\ \E mode \in DispatchModes :
       Commit(close(Mark([St EXCEPT !.pc = "failed"],
                         IF pc \in {"requestDevice", "gattConnect"}
                         THEN "failedBeforeGatt" ELSE "failedAfterGatt"),
                    mode))

\* the owner of the handle calls connection.close(); connect() returns the
\* handle at once (line 175), so the call has no precondition
UserClose ==
  /\ TRUE
  /\ \E mode \in DispatchModes :
       Commit(close(IF Negotiating /\ ~closed
                    THEN Mark(St, IF btServer THEN "closeNegotiatingGatt"
                                  ELSE "closeNegotiatingNoGatt")
                    ELSE St, mode))

\* the owner of the handle calls connection.write(data, callback)
UserWrite ==
  /\ Len(txItems) < MaxWrites
  /\ \E len \in PayloadLens, cb \in CallbackKinds : Commit(write(St, len, cb))

\* a writeValue promise resolved
SendResolved ==
  \E p \in pending, mode \in DispatchModes :
    Commit(onSent([St EXCEPT !.pending = @ \ {p},
                            !.acked[p.item] = Append(@, p.bytes)],
                  p.item, mode))

\* a writeValue promise rejected
SendRejected ==
  \E p \in pending, mode \in DispatchModes :
    LET s0 == Mark([St EXCEPT
                      !.pending = @ \ {p},
                      !.txItems = [i \in DOMAIN @ |->
                         IF \E k \in DOMAIN txDataQueue : txDataQueue[k] = i
                         THEN [@[i] EXCEPT !.dropped = TRUE] ELSE @[i]]],
                   "sendRejected")
    IN  Commit(onSendError(s0, mode))

\* the transport loses the link and queues the 'gattserverdisconnected' task
LinkLoss ==
  /\ linkUp
  /\ Commit([St EXCEPT !.linkUp = FALSE, !.discEvt = discListener])

\* lines 139-142: the 'gattserverdisconnected' listener runs
Disconnected ==
  /\ discEvt
  /\ \E mode \in DispatchModes :
       LET s0 == [St EXCEPT !.discEvt = FALSE]
           s1 == IF isOpen THEN Mark(s0, "lostWhileOpen")
                 ELSE IF Negotiating /\ ~closed
                      THEN Mark(s0, "lostWhileNegotiating")
                 ELSE s0
       IN  Commit(close(s1, mode))

Count(seq, x) == Cardinality({i \in DOMAIN seq : seq[i] = x})

\* lines 155-158: the transport raises a notification
Notification ==
  /\ notifyListener
  /\ Count(events, "data") < MaxNotify
  /\ Commit(emit(St, "data"))

Next ==
  \/ DeviceChosen
  \/ GattConnected
  \/ GotService
  \/ GotRX
  \/ NotificationsStarted
  \/ GotTX
  \/ NegotiationFailed
  \/ UserClose
  \/ UserWrite
  \/ SendResolved
  \/ SendRejected
  \/ LinkLoss
  \/ Disconnected
  \/ Notification

Spec == Init /\ [][Next]_vars

\* ------------------------------------------------ the chunk split, alone
\* connection.write(data, f) on the open connection, for every payload length
\* up to MaxLen; one request, so that the chunks seen are those of one payload
ChunkWrite ==
  /\ isOpen
  /\ txItems = <<>>
  /\ \E len \in 0..MaxLen : Commit(write(St, len, "plain"))

\* successful negotiation, one write, a transport that succeeds
ChunkNext ==
  \/ DeviceChosen
  \/ GattConnected
  \/ GotService
  \/ GotRX
  \/ NotificationsStarted
  \/ GotTX
  \/ ChunkWrite
  \/ SendResolved

SpecChunk == Init /\ [][ChunkNext]_vars

\* ------------------------------------------------------ the Session Facade
\* the facade state as a record, for the operators below
G == [conns |-> conns, connection |-> connection, timers |-> timers,
      fw |-> fw, dataConn |-> dataConn]

FCommit(g) ==
  /\ conns' = g.conns
  /\ connection' = g.connection
  /\ timers' = g.timers
  /\ fw' = g.fw
  /\ dataConn' = g.dataConn
  /\ UNCHANGED <<codeVars, envVars, histVars>>

\* lines 73-86 and 175: the Connection object connect() returns at once, for
\* the facade write w that called it.  received and hadData do not exist yet.
NewConn(w) ==
  [isOpen |-> FALSE, btServer |-> FALSE, btService |-> FALSE,
   txCharacteristic |-> FALSE, rxCharacteristic |-> FALSE,
   txDataQueue |-> <<>>, txInProgress |-> FALSE, txItems |-> <<>>,
   pc |-> "requestDevice",
   linkUp |-> FALSE, discListener |-> FALSE, notifyListener |-> FALSE,
   discEvt |-> FALSE, pending |-> {},
   sent |-> <<>>, acked |-> <<>>, events |-> <<>>, connected |-> <<>>,
   closed |-> FALSE, marks |-> {}, threw |-> FALSE,
   received |-> UNDEFINED, hadData |-> FALSE, ondata |-> FALSE,
   creator |-> w, module |-> 0]

\* the Connection i as a handler running now sees it: module is the value
\* the module variable has while the handler runs
Conn(g, i) == [g.conns[i] EXCEPT !.module = g.connection, !.threw = FALSE]

\* the txItem callback the facade passes to connection.write
onWrittenKind(hasCb) == IF hasCb THEN "onWritten" ELSE "onWrittenBare"

\* history only: a facade write that has been called and is not finished
\* (callback not yet invoked, or without callback, payload not yet flushed)
Outstanding(g, w) ==
  IF g.fw[w].hasCb THEN g.fw[w].results = <<>> ELSE ~g.fw[w].flushed

\* the argument null of the caller's callback, as a value distinct from every
\* string and from undefined
NullArg == [defined |-> FALSE, str |-> <<-1>>]

\* lines 204-208: the connect() callback of facade write w called with null.
\* callback(null) throws when no callback was given; otherwise line 208
\* throws because the module variable has just been cleared.
onConnectNull(g, w) ==
  [g EXCEPT !.connection = 0,
            !.fw[w].results = IF g.fw[w].hasCb THEN Append(@, NullArg) ELSE @,
            !.fw[w].raised = TRUE]

\* lines 182-196, onWritten of facade write w, after the txItem callback ran
onWritten(g, w) ==
  IF g.fw[w].hasCb
  THEN [g EXCEPT !.timers = @ \cup {[w |-> w, maxTime |-> maxTime, polls |-> 0]},
                 !.fw[w].flushed = TRUE]
  ELSE [g EXCEPT !.conns[g.connection].received = Str(<<>>),
                 !.fw[w].flushed = TRUE]

WriteOf(g, i, id) ==
  CHOOSE w \in DOMAIN g.fw : g.fw[w].conn = i /\ g.fw[w].item = id

Nulls(log) == Cardinality({k \in DOMAIN log : log[k] = "null"})

\* The facade's share of a handler that ran on Connection i and left it as h:
\* the onWritten call made by line 122, then the connect() callback calls made
\* by close() (line 96), in program order.  Neither changes what the rest of
\* the handler does to Connection i.
Settle(g, i, h) ==
  LET old  == g.conns[i]
      g1   == [g EXCEPT !.conns[i] = [h EXCEPT !.module = 0, !.threw = FALSE]]
      done == {id \in DOMAIN old.txItems :
                  h.txItems[id].calls > old.txItems[id].calls}
      g2   == IF done = {} THEN g1
              ELSE onWritten(g1, WriteOf(g1, i, CHOOSE id \in done : TRUE))
      n    == Nulls(h.connected) - Nulls(old.connected)
      g3   == IF n >= 1 THEN onConnectNull(g2, old.creator) ELSE g2
  IN  IF n >= 2 THEN onConnectNull(g3, old.creator) ELSE g3

\* history only: 'open' was emitted on the Connection and close() was called
\* on it afterwards
WasOpenNowClosed(s) ==
  \E j, k \in DOMAIN s.events :
     j < k /\ s.events[j] = "open" /\ s.events[k] = "closed"

\* lines 181-215: the facade's write(data, callback)
facadeWrite(g, hasCb) ==
  LET w    == Len(g.fw) + 1
      c    == g.connection
      busy == \E v \in DOMAIN g.fw : Outstanding(g, v)
      g0   == [g EXCEPT !.fw = [v \in DOMAIN @ |->
                 IF Outstanding(g, v) THEN [@[v] EXCEPT !.overlapped = TRUE]
                 ELSE @[v]]]
      rec  == [hasCb |-> hasCb, results |-> <<>>, conn |-> 0, item |-> 0,
               created |-> 0, callAt |-> Len(g.dataConn),
               doneAt |-> -1, polls |-> 0, bufAfter |-> UNDEFINED, overlapped |-> busy,
               raised |-> FALSE, flushed |-> FALSE,
               after |-> IF c # 0 /\ WasOpenNowClosed(g.conns[c]) THEN c ELSE 0]
  IN  IF c # 0 /\ g.conns[c].isOpen
      THEN \* lines 198-201
           LET s0  == [Conn(g, c) EXCEPT !.received = Str(<<>>)]
               s1  == write(s0, FacadeLen, onWrittenKind(hasCb))
               enq == Len(s1.txItems) > Len(s0.txItems)
           IN  [g0 EXCEPT
                  !.conns[c] = [s1 EXCEPT !.module = 0],
                  !.fw = Append(@, [rec EXCEPT
                            !.conn = IF enq THEN c ELSE 0,
                            !.item = IF enq THEN Len(s1.txItems) ELSE 0])]
      ELSE \* line 203: connect() returns the new Connection at once
           [g0 EXCEPT
              !.conns = Append(@, NewConn(w)),
              !.connection = Len(g.conns) + 1,
              !.fw = Append(@, [rec EXCEPT !.created = Len(g.conns) + 1])]

\* lines 135-161: the steps of the negotiation chain before the last one
negotiate(s) ==
  CASE s.pc = "requestDevice" ->
         [s EXCEPT !.discListener = TRUE, !.pc = "gattConnect"]
    [] s.pc = "gattConnect" ->
         [s EXCEPT !.linkUp = TRUE, !.btServer = TRUE,
                   !.pc = "getPrimaryService"]
    [] s.pc = "getPrimaryService" ->
         [s EXCEPT !.btService = TRUE, !.pc = "getRX"]
    [] s.pc = "getRX" ->
         [s EXCEPT !.rxCharacteristic = TRUE, !.notifyListener = TRUE,
                   !.pc = "startNotifications"]
    [] s.pc = "startNotifications" -> [s EXCEPT !.pc = "getTX"]

\* lines 162-170 on Connection i, with the facade's connect() callback of
\* lines 203-214 called at line 168.  The callback works on the module
\* variable, not on its argument: it throws at line 208 when the variable is
\* undefined, and then the chain's catch handler (lines 171-174) closes
\* Connection i without 'open' having been emitted.
onOpened(g, i, mode) ==
  LET w0 == g.conns[i].creator
      s1 == callback([Conn(g, i) EXCEPT !.txCharacteristic = TRUE,
                                        !.txDataQueue = <<>>,
                                        !.txInProgress = FALSE,
                                        !.isOpen = TRUE,
                                        !.pc = "done"], "conn")
      c  == g.connection
  IN  IF c = 0
      THEN Settle([g EXCEPT !.fw[w0].raised = TRUE], i, close(s1, mode))
      ELSE LET g1  == [g EXCEPT !.conns[i] = s1]
               t0  == [g1.conns[c] EXCEPT !.received = Str(<<>>),
                                          !.ondata = TRUE]
               t1  == write(t0, FacadeLen, onWrittenKind(g.fw[w0].hasCb))
               enq == Len(t1.txItems) > Len(t0.txItems)
               g2  == [g1 EXCEPT
                         !.conns[c] = t1,
                         !.fw[w0].conn = IF enq THEN c ELSE @,
                         !.fw[w0].item = IF enq THEN Len(t1.txItems) ELSE @]
           IN  [g2 EXCEPT !.conns[i] = [emit(@, "open") EXCEPT !.module = 0]]

\* lines 209-212, reached from the listener of lines 155-158 on Connection i:
\* the n-th notification.  The facade's handler appends to the buffer of the
\* module variable's Connection; in a listener its TypeError goes nowhere.
onData(g, i, n) ==
  LET c  == g.connection
      g1 == [g EXCEPT !.conns[i] = emit(@, "data"),
                      !.dataConn = Append(@, i)]
  IN  IF ~g.conns[i].ondata \/ c = 0 THEN g1
      ELSE [g1 EXCEPT
              !.conns[c].received =
                 IF @.defined THEN Str(Append(@.str, n))
                 ELSE Str(<<0, n>>),      \* undefined + d is "undefined" + d
              !.conns[c].hadData = TRUE]

\* lines 186-194: the timeout closure of facade write t.w runs
timeout(g, t) ==
  LET c    == g.connection
      g1   == [g EXCEPT !.timers = @ \ {t}]
      more == g.conns[c].hadData /\ t.maxTime # 0
      left == IF g.conns[c].hadData THEN t.maxTime - 1 ELSE t.maxTime
  IN  IF c = 0 THEN [g1 EXCEPT !.fw[t.w].raised = TRUE]
      ELSE IF more
      THEN [g1 EXCEPT
              !.timers = @ \cup {[w |-> t.w, maxTime |-> left,
                                  polls |-> t.polls + 1]},
              !.fw[t.w].polls = t.polls + 1,
              !.conns[c].hadData = FALSE]
      ELSE LET g2 == [g1 EXCEPT
                        !.fw[t.w].results = Append(@, g.conns[c].received),
                        !.fw[t.w].polls = t.polls + 1,
                        !.fw[t.w].doneAt = Len(g.dataConn),
                        !.conns[c].received = Str(<<>>),
                        !.conns[c].hadData = FALSE]
           IN  [g2 EXCEPT !.fw[t.w].bufAfter = g2.conns[c].received]

\* ---------------------------------------------------------- facade actions
FWrite ==
  /\ Len(fw) < MaxFWrites
  /\ \E hasCb \in BOOLEAN : FCommit(facadeWrite(G, hasCb))

FNegotiate ==
  \E i \in DOMAIN conns :
    /\ conns[i].pc \in {"requestDevice", "gattConnect", "getPrimaryService",
                        "getRX", "startNotifications"}
    /\ FCommit([G EXCEPT !.conns[i] = negotiate(@)])

FOpened ==
  \E i \in DOMAIN conns, mode \in DispatchModes :
    /\ conns[i].pc = "getTX"
    /\ FCommit(onOpened(G, i, mode))

\* lines 171-174: the pending step of Connection i rejected
FNegotiationFailed ==
  \E i \in DOMAIN conns, mode \in DispatchModes :
    /\ conns[i].pc \notin {"done", "failed"}
    /\ FCommit(Settle(G, i, close([Conn(G, i) EXCEPT !.pc = "failed"], mode)))

FSendResolved ==
  \E i \in DOMAIN conns, mode \in DispatchModes :
    \E p \in conns[i].pending :
      FCommit(Settle(G, i, onSent([Conn(G, i) EXCEPT
                                      !.pending = @ \ {p},
                                      !.acked[p.item] = Append(@, p.bytes)],
                                  p.item, mode)))

FSendRejected ==
  \E i \in DOMAIN conns, mode \in DispatchModes :
    \E p \in conns[i].pending :
      FCommit(Settle(G, i, onSendError(Mark([Conn(G, i) EXCEPT
                                                !.pending = @ \ {p}],
                                            "sendRejected"), mode)))

FLinkLoss ==
  \E i \in DOMAIN conns :
    /\ conns[i].linkUp
    /\ FCommit([G EXCEPT !.conns[i].linkUp = FALSE,
                         !.conns[i].discEvt = conns[i].discListener])

FDisconnected ==
  \E i \in DOMAIN conns, mode \in DispatchModes :
    /\ conns[i].discEvt
    /\ FCommit(Settle(G, i, close(Mark([Conn(G, i) EXCEPT !.discEvt = FALSE],
                                       IF conns[i].isOpen THEN "lostWhileOpen"
                                       ELSE "lostWhileClosed"), mode)))

FNotification ==
  \E i \in DOMAIN conns :
    /\ conns[i].notifyListener
    /\ Len(dataConn) < MaxData
    /\ FCommit(onData(G, i, Len(dataConn) + 1))

FTimeout ==
  \E t \in timers : FCommit(timeout(G, t))

FacadeNext ==
  \/ FWrite
  \/ FNegotiate
  \/ FOpened
  \/ FNegotiationFailed
  \/ FSendResolved
  \/ FSendRejected
  \/ FLinkLoss
  \/ FDisconnected
  \/ FNotification
  \/ FTimeout

FacadeSpec == Init /\ [][FacadeNext]_vars

\* ----------------------------------------------- the quiescence poll, alone
\* one facade write with a callback
PollWrite ==
  /\ fw = <<>>
  /\ FCommit(facadeWrite(G, TRUE))

\* the transport raises notifications, enough of them for one in every
\* window of the poll
PollNotification ==
  \E i \in DOMAIN conns :
    /\ conns[i].notifyListener
    /\ Len(dataConn) < MaxPollData
    /\ FCommit(onData(G, i, Len(dataConn) + 1))

\* successful negotiation, a transport that succeeds, a device that talks
PollNext ==
  \/ PollWrite
  \/ FNegotiate
  \/ FOpened
  \/ FSendResolved
  \/ PollNotification
  \/ FTimeout

PollSpec == Init /\ [][PollNext]_vars

\* ---------------------------------------------------------------- histories
IsPrefix(a, b) == Len(a) <= Len(b) /\ a = SubSeq(b, 1, Len(a))

Before(seq, x, y) ==
  \A j \in DOMAIN seq : seq[j] = y => \E i \in 1..(j - 1) : seq[i] = x

\* the chunks of one payload, cut at every CHUNKSIZE bytes
RECURSIVE Chunks(_)
Chunks(p) ==
  IF Len(p) <= CHUNKSIZE THEN <<p>>
  ELSE <<SubSeq(p, 1, CHUNKSIZE)>> \o Chunks(SubSeq(p, CHUNKSIZE + 1, Len(p)))

\* the chunks of the accepted requests id..Len(txItems), in submission order
RECURSIVE ExpectedFrom(_)
ExpectedFrom(id) ==
  IF id > Len(txItems) THEN <<>>
  ELSE [k \in 1..Len(Chunks(txItems[id].payload)) |->
           [item |-> id, bytes |-> Chunks(txItems[id].payload)[k]]]
       \o ExpectedFrom(id + 1)

HasCallback(id) == txItems[id].callback # "none"

\* the chunks of request id handed to the transport so far, and their bytes
ChunksOf(id) == SelectSeq(sent, LAMBDA e : e.item = id)
RECURSIVE Flatten(_)
Flatten(cs) == IF cs = <<>> THEN <<>> ELSE Head(cs).bytes \o Flatten(Tail(cs))

\* ------------------------------------------------------------------- claims

\* C1: the chunks handed to writeValue are, in order, the chunks of the first
\* accepted payload, then those of the second, and so on; at any moment the
\* transport has seen a prefix of that sequence, and all of it once the queue
\* is empty and idle.
C1_FifoChunks ==
  /\ IsPrefix(sent, ExpectedFrom(1))
  /\ (txDataQueue = <<>> /\ ~txInProgress) => sent = ExpectedFrom(1)

\* C1 witness: two requests were accepted, the first of more than one chunk,
\* and every chunk of both has been handed to the transport.
C1_Witness ==
  /\ Len(txItems) >= 2
  /\ Len(txItems[1].payload) > CHUNKSIZE
  /\ sent = ExpectedFrom(1)
  /\ \E j \in DOMAIN sent : sent[j].item = 2

\* C2: a completion callback is invoked at most once and only when every
\* chunk of its request has been reported successful by the transport; on a
\* connection that is open, with no write rejected and none outstanding, the
\* callback of every accepted request has been invoked exactly once.
C2_CompletionOnce ==
  /\ \A id \in DOMAIN txItems :
        /\ txItems[id].calls <= 1
        /\ txItems[id].calls >= 1 => acked[id] = Chunks(txItems[id].payload)
  /\ (isOpen /\ "sendRejected" \notin marks /\ pending = {}) =>
        \A id \in DOMAIN txItems : HasCallback(id) => txItems[id].calls = 1

\* Lemma: the safety half of the completion contract holds in every reachable
\* state: at most once, and only after every chunk succeeded.
AtMostOnceAfterSuccess ==
  \A id \in DOMAIN txItems :
     /\ txItems[id].calls <= 1
     /\ txItems[id].calls >= 1 => acked[id] = Chunks(txItems[id].payload)

\* C3: at most one writeValue promise is outstanding.
C3_OneInFlight == Cardinality(pending) <= 1

\* C3 witness: a chunk is outstanding while two requests are queued.
C3_Witness == Cardinality(pending) = 1 /\ Len(txDataQueue) >= 2

\* C4: once the transport has rejected a chunk write, no request that was in
\* the queue at that moment has its callback invoked, none of them is queued
\* any more, isOpen is false and a close event has been emitted.
C4_FailureAbandons ==
  "sendRejected" \in marks =>
     /\ \A id \in DOMAIN txItems :
           txItems[id].dropped =>
              /\ txItems[id].calls = 0
              /\ \A k \in DOMAIN txDataQueue : txDataQueue[k] # id
     /\ ~isOpen
     /\ Count(events, "close") >= 1

\* C5: when requestDevice or gatt.connect() has rejected, the connect()
\* callback has been invoked exactly once, with null, and isOpen is false.
C5_EarlyFailureReported ==
  "failedBeforeGatt" \in marks => (connected = <<"null">> /\ ~isOpen)

\* C6: when a negotiation step after gatt.connect() has rejected, the
\* connect() callback has been invoked with null exactly once and never with
\* the connection, and no open event has been emitted.
C6_LateFailureReportedOnce ==
  "failedAfterGatt" \in marks =>
     /\ Count(connected, "null") = 1
     /\ Count(connected, "conn") = 0
     /\ Count(events, "open") = 0

\* C7: after the Connection has reached Closed no open and no data event is
\* emitted and isOpen is false.
C7_ClosedIsTerminal ==
  /\ closed => ~isOpen
  /\ \A i, j \in DOMAIN events :
        (events[i] = "closed" /\ i < j) => events[j] \notin {"open", "data"}

\* C8: no connection.write call made on a Closed Connection is accepted: the
\* queue never holds, and the transport never sees, a request submitted after
\* Closed was reached.
C8_WriteOnClosedNoop ==
  \A id \in DOMAIN txItems : ~txItems[id].whenClosed

\* C9: when close() was called on a Connection that was still Negotiating,
\* the connect() callback has been invoked with null, exactly once and never
\* with the connection, and no close event has been emitted.
C9_CloseWhileNegotiating ==
  (marks \cap {"closeNegotiatingGatt", "closeNegotiatingNoGatt"} # {}) =>
     /\ connected = <<"null">>
     /\ Count(events, "close") = 0

\* C10: a link loss observed while open has produced exactly one close event
\* and isOpen false; one observed while Negotiating has produced the
\* callback with null and no close event; close is emitted at most once and
\* only after open.
C10_DisconnectSurfacedOnce ==
  /\ "lostWhileOpen" \in marks => (Count(events, "close") = 1 /\ ~isOpen)
  /\ "lostWhileNegotiating" \in marks =>
        (Count(connected, "null") = 1 /\ Count(events, "close") = 0)
  /\ Count(events, "close") <= 1
  /\ Before(events, "open", "close")

\* C11: the chunks issued for a payload never exceed CHUNKSIZE bytes, all but
\* the last are exactly CHUNKSIZE bytes, together they are a prefix of the
\* payload, and when the request is reported complete they are the payload.
C11_ChunkRoundTrip ==
  \A id \in DOMAIN txItems :
     LET cs == ChunksOf(id)
     IN  /\ IsPrefix(Flatten(cs), txItems[id].payload)
         /\ \A k \in DOMAIN cs : Len(cs[k].bytes) <= CHUNKSIZE
         /\ \A k \in 1..(Len(cs) - 1) : Len(cs[k].bytes) = CHUNKSIZE
         /\ txItems[id].calls >= 1 =>
               (cs # <<>> /\ Flatten(cs) = txItems[id].payload)

\* C11 witness: a payload of exactly two chunk sizes went out as two chunks
\* and was reported complete.
C11_Witness ==
  \E id \in DOMAIN txItems :
     /\ Len(txItems[id].payload) = 2 * CHUNKSIZE
     /\ txItems[id].calls = 1
     /\ Len(ChunksOf(id)) = 2

\* C17: once close() has been called, a request accepted before that call
\* and not yet completed (it was in flight or queued at that moment) never has
\* its completion callback invoked and none of its chunks is handed to the
\* transport any more, whether the outstanding write resolves or rejects.
C17_CloseAbandonsSilently ==
  [][\A id \in DOMAIN txItems :
        (closed /\ ~txItems[id].whenClosed /\ txItems[id].calls = 0) =>
           /\ txItems'[id].calls = 0
           /\ ChunksOf(id)' = ChunksOf(id)]_vars

\* C18: when the last chunk of a request written without a callback succeeds
\* on an open connection, the connection is still open afterwards and the
\* requests queued behind it are still queued for sending.
C18_OmittedCallbackHarmless ==
  [][\A id \in DOMAIN txItems :
        ( /\ isOpen
          /\ txItems[id].callback = "none"
          /\ Falsy(txItems[id].data)
          /\ acked'[id] # acked[id] ) =>
           /\ isOpen'
           /\ txDataQueue' = Tail(txDataQueue)]_vars

\* C19: on an open connection whose transport has reported no failure, a
\* non-empty queue always has a chunk write in flight, so that the next
\* transport success continues the drain.
C19_DrainNeverStalls ==
  (isOpen /\ "sendRejected" \notin marks /\ txDataQueue # <<>>) => pending # {}

\* C20: isOpen is true only while the connection holds a GATT session and a
\* TX characteristic.
C20_OpenImpliesSession ==
  isOpen => (btServer /\ txCharacteristic)

\* a facade-created Connection that is Negotiating or Open
Active(i) ==
  \/ conns[i].isOpen
  \/ conns[i].pc \notin {"done", "failed"} /\ ~conns[i].closed

\* C12: at most one Connection created by the facade is Negotiating or Open.
C12_OneActiveConnection ==
  Cardinality({i \in DOMAIN conns : Active(i)}) <= 1

\* C13: when the negotiation started by a facade write has failed, its
\* callback, if given, has been invoked exactly once, with null; without a
\* callback no error was raised; nothing was enqueued for it, no data handler
\* was installed, and (no later write having been made) the module variable
\* is undefined.
C13_FailedNegotiationReported ==
  \A w \in DOMAIN fw :
     (fw[w].created # 0 /\ conns[fw[w].created].pc = "failed") =>
        /\ fw[w].hasCb => fw[w].results = <<NullArg>>
        /\ ~fw[w].hasCb => ~fw[w].raised
        /\ fw[w].conn = 0
        /\ ~conns[fw[w].created].ondata
        /\ w = Len(fw) => connection = 0

\* C14: the timeout closure of a facade write runs at most 10 times, the
\* callback being invoked by the 10th run at the latest.
C14_AtMostTenPolls ==
  \A w \in DOMAIN fw : fw[w].polls <= 10

\* the notifications numbered from+1 .. to, in order
Tokens(from, to) == [k \in 1..(to - from) |-> from + k]
\* a facade write with callback that overlapped no other facade write, whose
\* payload was flushed on a Connection that is still open, and whose callback
\* has been invoked
Answered(w) ==
  /\ fw[w].hasCb
  /\ ~fw[w].overlapped
  /\ fw[w].conn # 0
  /\ fw[w].flushed
  /\ conns[fw[w].conn].isOpen /\ ~conns[fw[w].conn].closed
  /\ fw[w].results # <<>>

\* C15: the callback of such a write was invoked once, with the
\* notifications raised between the write call and the callback, in order,
\* and the receive buffer was empty right afterwards.
C15_ResponseIsAllData ==
  \A w \in DOMAIN fw :
     Answered(w) =>
        /\ fw[w].results = <<Str(Tokens(fw[w].callAt, fw[w].doneAt))>>
        /\ fw[w].bufAfter = Str(<<>>)

\* C16: a facade write made when the facade's Connection had been open and
\* was closed since is never enqueued on that Connection; it created a new
\* Connection, and once that one is open the payload is enqueued on it.
C16_WriteAfterCloseReconnects ==
  \A w \in DOMAIN fw :
     fw[w].after # 0 =>
        /\ fw[w].conn # fw[w].after
        /\ fw[w].created # 0
        /\ conns[fw[w].created].isOpen => fw[w].conn = fw[w].created

====
